---- MODULE Spec2Model ----
(***************************************************************************)
(* A model of scripts/generate_latest.py: the source adapters, the metric  *)
(* helpers, the chart alignment, the mood/action rule, the earnings and    *)
(* movers lists, and main()'s run from the first fetch to the write of     *)
(* data/latest.json.                                                       *)
(*                                                                         *)
(* Numbers are integers (prices and index levels in whole units); a        *)
(* percent change is kept as an exact fraction n/d with d > 0.  Python's   *)
(* None is the empty tuple and a present value v is the 1-tuple <<v>>.     *)
(* Calendar dates are integers (day numbers); today is day 0.              *)
(***************************************************************************)
EXTENDS Integers, Sequences, FiniteSets, TLC

VARIABLES
    phase,      \* main(): where the run is
    site,       \* main(): index in CallSites of the external call at hand
    outcome,    \* main(): what each external call did, by call site
    payload,    \* main(): the in-memory document, None until built
    file,       \* the content of data/latest.json, a sequence of <<key, value>>
    resp,       \* a provider's CSV response handed to a series adapter
    series,     \* what the series adapter returned for resp
    feeds,      \* the six fetched series the two charts are built from
    charts,     \* macro_series and overnight_series
    quotes,     \* the S&P 500 and VIX close arrays the rule reads
    verdict,    \* pct_change, the KPI fields and mood/action derived from quotes
    calendar,   \* what the earnings lookup answers for each of the 7 days
    clock,      \* the day number datetime.now(KST).date() gives at line 430
    holdings,   \* changePct of each watchlist ticker, in MY_TICKERS order
    upcoming,   \* build_earnings_next_7days' list
    movers,     \* earnings.movers
    RSS_CACHE,  \* _RSS_CACHE: the list stored for each feed url
    rss_call,   \* the latest google_news_rss call and what it did
    rss_seen    \* by query, the first google_news_rss call that returned

pipeVars  == <<phase, site, outcome, payload, file>>
fetchVars == <<resp, series>>
alignVars == <<feeds, charts>>
ruleVars  == <<quotes, verdict>>
earnVars  == <<calendar, clock, holdings, upcoming, movers>>
rssVars   == <<RSS_CACHE, rss_call, rss_seen>>
vars == <<pipeVars, fetchVars, alignVars, ruleVars, earnVars, rssVars>>

----------------------------------------------------------------------------
(* Bounds of the model. *)

\* The largest day number a provider row carries.
MaxDate == 3
\* The most data rows in one provider response.
MaxRows == 3
\* The adapters' limit argument ranges over 1..MaxLimit (the code passes 35 and 3).
MaxLimit == 2
\* The chart window: the code keeps the last 30 labels; the model keeps ChartLen.
ChartLen == 2
\* The longest close array the rule and the KPIs are derived from.
MaxCloses == 2
\* The most rows of a small earnings calendar, over all its days.
MaxCalRows == 3
\* The holdings' changePct vectors are the strides 0..MaxStride of a cycle.
MaxStride == 3

----------------------------------------------------------------------------
(* Python values. *)

None == <<>>
Some(v) == <<v>>

\* A part of the program that a specification leaves out is kept still.
IdlePipe ==
    /\ phase = "off" /\ site = 0 /\ outcome = None /\ payload = None
    /\ file = None
IdleFetch == resp = None /\ series = None
IdleAlign == feeds = None /\ charts = None
IdleRule == quotes = None /\ verdict = None
IdleEarn ==
    /\ calendar = None /\ clock = 0 /\ holdings = None /\ upcoming = None
    /\ movers = None
IdleRss == RSS_CACHE = None /\ rss_call = None /\ rss_seen = None

\* s[-n:]
LastN(s, n) ==
    IF n = 0 \/ n >= Len(s) THEN s ELSE SubSeq(s, Len(s) - n + 1, Len(s))

\* s[:n]
FirstN(s, n) == IF n >= Len(s) THEN s ELSE SubSeq(s, 1, n)

\* s[1:]
Rest(s) == IF s = <<>> THEN <<>> ELSE Tail(s)

\* The sequence f, held as a tuple of its elements.
AsList(f) == <<>> \o f

\* The elements of a sequence.
Range(s) == {s[i] : i \in 1..Len(s)}

\* A CSV field: text that float() parses to num, or text it rejects.
Num(v) == [kind |-> "num", num |-> v]
Junk == [kind |-> "junk", num |-> 0]

safe_float(x) == IF x.kind = "num" THEN Some(x.num) ELSE None

\* The fraction n/d, kept with a positive denominator.
Frac(n, d) == IF d < 0 THEN [n |-> 0 - n, d |-> 0 - d] ELSE [n |-> n, d |-> d]

\* (last / prev - 1.0) * 100.0, and 0.0 when an input is None or prev is 0
pct_change(last, prev) ==
    IF last = None \/ prev = None THEN Frac(0, 1)
    ELSE IF prev[1] = 0 THEN Frac(0, 1)
    ELSE Frac((last[1] - prev[1]) * 100, prev[1])

last_prev(arr) ==
    IF Len(arr) < 2 THEN <<None, None>>
    ELSE <<Some(arr[Len(arr)]), Some(arr[Len(arr) - 1])>>

\* round(x, 2) of a percent, as an integer count of hundredths of a percent
\* (round-half-even, as Python rounds).
round2(x) ==
    LET num == x.n * 100
        q == num \div x.d
        twice == 2 * (num - q * x.d)
    IN  IF twice < x.d THEN q
        ELSE IF twice > x.d THEN q + 1
        ELSE IF q % 2 = 0 THEN q ELSE q + 1

----------------------------------------------------------------------------
(* Series adapters. A response is [kind, status, lines, limit]; lines[1] is *)
(* the CSV header and every other line is [parts, dt, val]: the number of   *)
(* comma-separated parts, the date field and the value field.               *)

Raised == [raised |-> TRUE, labels |-> <<>>, values |-> <<>>]
Returned(rows) ==
    [raised |-> FALSE,
     labels |-> AsList([i \in 1..Len(rows) |-> rows[i][1]]),
     values |-> AsList([i \in 1..Len(rows) |-> rows[i][2]])]

\* The rows the parsing loop keeps, in the order the provider sent them.
KeptRows(lines, minParts) ==
    LET ok(ln) == ln.parts >= minParts /\ safe_float(ln.val) # None
        good == SelectSeq(Rest(lines), ok)
    IN  [i \in 1..Len(good) |-> <<good[i].dt, safe_float(good[i].val)[1]>>]

fetch_stooq_close_series(r, limit) ==
    IF r.status # "ok" THEN Raised
    ELSE IF Len(r.lines) < 3 THEN Returned(<<>>)
    ELSE Returned(LastN(KeptRows(r.lines, 5), limit))

fetch_fred_dgs10(r, limit) ==
    IF r.status # "ok" THEN Raised
    ELSE IF \E i \in 2..Len(r.lines) : r.lines[i].parts # 2 THEN Raised
    ELSE Returned(LastN(KeptRows(r.lines, 2), limit))

----------------------------------------------------------------------------
(* Chart alignment (main, lines 365-375 and 517-526). A fetched series is   *)
(* [labels, values], two arrays of one length.                              *)

\* {d: v for d, v in zip(labels, values)}.get(d): the value of the last row
\* dated d, None when no row is
MapGet(s, d) ==
    LET at == {i \in 1..Len(s.labels) : i <= Len(s.values) /\ s.labels[i] = d}
    IN  IF at = {} THEN None
        ELSE Some(s.values[CHOOSE i \in at : \A j \in at : j <= i])

\* AlignTo with the values taken by position instead of by date.
AlignTo_by_position(labels, s) ==
    [i \in 1..Len(labels) |->
        IF i <= Len(s.values) THEN Some(s.values[i]) ELSE None]

AlignTo(labels, s) == [i \in 1..Len(labels) |-> MapGet(s, labels[i])]

macro_labels(us10y, spx) ==
    IF us10y.labels # <<>> THEN LastN(us10y.labels, ChartLen)
    ELSE IF spx.labels # <<>> THEN LastN(spx.labels, ChartLen)
    ELSE <<>>

macro_series(us10y, dxy, wti, spx) ==
    LET labels == macro_labels(us10y, spx)
    IN  [labels |-> labels,
         us10y |-> AlignTo(labels, us10y),
         dxy |-> AlignTo(labels, dxy),
         wti |-> AlignTo(labels, wti)]

overnight_series(spx, ixic, dji) ==
    LET ov_labels == IF spx.labels # <<>> THEN LastN(spx.labels, ChartLen) ELSE <<>>
    IN  [labels |-> ov_labels,
         spx |-> IF spx.values # <<>> THEN LastN(spx.values, ChartLen) ELSE <<>>,
         ixic |-> AlignTo(ov_labels, ixic),
         dji |-> AlignTo(ov_labels, dji)]

----------------------------------------------------------------------------
(* Mood/action rule (main, lines 482-494). The moods are "good" (line 487), *)
(* "bad" (line 490) and "unclear" (line 493); the actions are "buy a        *)
(* little" (line 488) and "wait" (lines 491 and 494).                       *)

\* spx_chg, line 483
spx_change(spx_last, spx_prev) ==
    IF spx_last # None /\ spx_prev # None THEN pct_change(spx_last, spx_prev)
    ELSE Frac(0, 1)

\* x > 0.5 and x < -0.5 for a fraction x
OverHalf(x) == 2 * x.n > x.d
UnderMinusHalf(x) == 2 * x.n < 0 - x.d

\* mood_action with the first comparison made inclusive (>= 0.5).
mood_action_inclusive(spx_chg, vix_val) ==
    IF 2 * spx_chg.n >= spx_chg.d /\ (vix_val = None \/ vix_val[1] < 18)
    THEN [mood |-> "good", action |-> "buy a little"]
    ELSE IF UnderMinusHalf(spx_chg) /\ (vix_val # None /\ vix_val[1] > 20)
    THEN [mood |-> "bad", action |-> "wait"]
    ELSE [mood |-> "unclear", action |-> "wait"]

mood_action(spx_chg, vix_val) ==
    IF OverHalf(spx_chg) /\ (vix_val = None \/ vix_val[1] < 18)
    THEN [mood |-> "good", action |-> "buy a little"]
    ELSE IF UnderMinusHalf(spx_chg) /\ (vix_val # None /\ vix_val[1] > 20)
    THEN [mood |-> "bad", action |-> "wait"]
    ELSE [mood |-> "unclear", action |-> "wait"]

\* if x: of a float or None
Truthy(x) == x # None /\ x[1] # 0

\* One KPI of overnight_kpis / macro_kpis (lines 341-344, 361-362): valueText
\* is the number or "-", changePct is in hundredths of a percent.
kpi(last, prev) ==
    [valueText |-> IF Truthy(last) THEN [text |-> "number", of |-> last[1]]
                   ELSE [text |-> "-", of |-> 0],
     changePct |-> IF Truthy(last) THEN round2(pct_change(last, prev)) ELSE 0]

\* chg of a holding or a sector, lines 392 and 426
holding_chg(last, prev) ==
    IF last # None /\ prev # None THEN round2(pct_change(last, prev)) ELSE 0

----------------------------------------------------------------------------
(* Earnings calendar (build_earnings_next_7days) and movers (main, lines    *)
(* 429-469). The lookup's answer for a day is [shape, rows]: shape is what  *)
(* get_earnings_by_date did ("raise") or the type of what it returned       *)
(* ("none", "str", "dict", "list", "other"); a row is [isdict, symbol,      *)
(* time]. An entry's when is <<date>> or <<date, timing>>: the text         *)
(* f"{date} {timing}".strip() split at the blank.                           *)

MY_TICKERS ==
    <<"NE", "RXRX", "BLDP", "BMNR", "NVDA", "TSLA", "AI", "GGLL", "QQQM",
      "VRTL", "CEVA", "CCS">>

myset == Range(MY_TICKERS)

\* The days range(0, 7) looks up, as offsets from today.
LookupDays == 7
\* The most entries of the upcoming list, out[:12].
UpcomingCap == 12
\* Fewer near-earnings movers than this bring in the proxy entries.
NearEnough == 6
\* my_sorted[:3] and my_sorted[-3:]
ProxyEach == 3
\* The most entries of the movers list, movers2[:10].
MoversCap == 10

\* str(...).upper().strip() on the symbols the model's rows carry.
UpperStrip(raw) ==
    CASE raw = "nvda" -> "NVDA"
      [] raw = " ne " -> "NE"
      [] OTHER -> raw

\* Lines 280-287: what the loop over rows iterates.
RowsOf(answer) ==
    CASE answer.shape = "list" -> answer.rows
      [] answer.shape = "dict" -> answer.rows
      [] OTHER -> <<>>

\* Lines 289-308 for one day: the items its rows add.
DayItems(d, answer) ==
    LET rows == RowsOf(answer)
        sym(r) == UpperStrip(r.symbol)
        takes(r) == r.isdict /\ sym(r) # "" /\ sym(r) \in myset
        kept == SelectSeq(rows, takes)
    IN  [i \in 1..Len(kept) |->
            [when |-> IF kept[i].time = "" THEN <<d>> ELSE <<d, kept[i].time>>,
             symbol |-> sym(kept[i])]]

RECURSIVE ItemsFrom(_, _)
ItemsFrom(cal, d) ==
    IF d >= LookupDays THEN <<>>
    ELSE DayItems(d, cal[d]) \o ItemsFrom(cal, d + 1)

\* earnings_key with the whole when text, timing label included.
earnings_key_with_timing(x) == <<x.symbol, x.when>>

\* The key of the de-duplication at line 314.
earnings_key(x) == <<x.symbol, x.when[1]>>

\* Lines 311-318, and the same loop at lines 462-468: the first item of
\* each key, in order; keys[i] is the key of items[i].
RECURSIVE DedupFrom(_, _, _)
DedupFrom(items, keys, seen) ==
    IF items = <<>> THEN <<>>
    ELSE IF Head(keys) \in seen THEN DedupFrom(Tail(items), Tail(keys), seen)
    ELSE <<Head(items)>>
           \o DedupFrom(Tail(items), Tail(keys), seen \cup {Head(keys)})

dedup_earnings(items) ==
    DedupFrom(items, AsList([i \in 1..Len(items) |-> earnings_key(items[i])]), {})

build_earnings_next_7days(cal) ==
    FirstN(dedup_earnings(ItemsFrom(cal, 0)), UpcomingCap)

\* mystocks, as far as the movers read it: symbol and changePct.
mystocks_of(chgs) ==
    AsList([i \in 1..Len(MY_TICKERS) |->
              [symbol |-> MY_TICKERS[i], changePct |-> chgs[i]]])

\* Lines 431-438
near_syms(up, today) ==
    {up[i].symbol : i \in {j \in 1..Len(up) :
        up[j].when[1] - today <= 1 /\ today - up[j].when[1] <= 1}}

\* sorted(mystocks, key=changePct, reverse=True): descending, equal keys in
\* their original order.
RECURSIVE sorted_desc(_)
sorted_desc(xs) ==
    IF xs = <<>> THEN <<>>
    ELSE LET rest == sorted_desc(FirstN(xs, Len(xs) - 1))
             x == xs[Len(xs)]
             before == SelectSeq(rest, LAMBDA y : y.changePct >= x.changePct)
             after == SelectSeq(rest, LAMBDA y : y.changePct < x.changePct)
         IN  before \o <<x>> \o after

mover_key(m) == m.symbol

\* dedup_movers keeping the last entry of each symbol instead of the first.
dedup_movers_keep_last(ms) ==
    LET rev(q) == AsList([i \in 1..Len(q) |-> q[Len(q) + 1 - i]])
        back == rev(ms)
    IN  rev(DedupFrom(back, AsList([i \in 1..Len(back) |-> mover_key(back[i])]), {}))

dedup_movers(ms) ==
    DedupFrom(ms, AsList([i \in 1..Len(ms) |-> mover_key(ms[i])]), {})

build_movers(up, mystocks, today) ==
    LET near == near_syms(up, today)
        picked == SelectSeq(mystocks, LAMBDA x : x.symbol \in near)
        first == [i \in 1..Len(picked) |->
                    [symbol |-> picked[i].symbol,
                     changePct |-> picked[i].changePct, why |-> "near"]]
        my_sorted == sorted_desc(mystocks)
        proxy == FirstN(my_sorted, ProxyEach) \o LastN(my_sorted, ProxyEach)
        second == IF Len(first) < NearEnough
                  THEN [i \in 1..Len(proxy) |->
                          [symbol |-> proxy[i].symbol,
                           changePct |-> proxy[i].changePct, why |-> "proxy"]]
                  ELSE <<>>
    IN  FirstN(dedup_movers(first \o second), MoversCap)

----------------------------------------------------------------------------
(* main(): the external calls, in the order main() makes them. A call site  *)
(* is [fn, arg, line, guarded, timeout]: the adapter or library function,   *)
(* its argument, the line of the call, whether the call is inside a         *)
(* try/except of this file, and whether it is given a timeout.              *)

SECTOR_ETFS ==
    <<"XLK", "XLF", "XLY", "XLP", "XLE", "XLV", "XLI", "XLB", "XLU", "XLRE",
      "XLC">>

Site(fn, arg, line, guarded, timeout) ==
    [fn |-> fn, arg |-> arg, line |-> line, guarded |-> guarded,
     timeout |-> timeout]

IndexSites ==
    <<Site("stooq", "^spx", 330, FALSE, TRUE),
      Site("stooq", "^ndq", 331, FALSE, TRUE),
      Site("stooq", "^dji", 332, FALSE, TRUE),
      Site("stooq", "vi.f", 333, FALSE, TRUE)>>

MacroSites ==
    <<Site("fred", "DGS10", 348, FALSE, TRUE),
      Site("stooq", "dx.f", 349, FALSE, TRUE),
      Site("stooq", "cl.f", 350, FALSE, TRUE)>>

\* fc.get_earnings_by_date, line 275, once per day
EarningsSites ==
    [k \in 1..LookupDays |-> Site("earnings", k - 1, 275, TRUE, FALSE)]

\* Lines 384-401: for each ticker the price fetch, then google_news_one
\* (whose feedparser.parse(url), line 126, is given no timeout).
TickerSites ==
    [k \in 1..(2 * Len(MY_TICKERS)) |->
        IF k % 2 = 1 THEN Site("stooq", MY_TICKERS[(k + 1) \div 2], 388, TRUE, TRUE)
        ELSE Site("news_one", MY_TICKERS[k \div 2], 401, TRUE, FALSE)]

SectorSites ==
    [k \in 1..Len(SECTOR_ETFS) |-> Site("stooq", SECTOR_ETFS[k], 422, TRUE, TRUE)]

TailSites ==
    <<Site("bls_page", "ical.htm", 211, TRUE, TRUE),
      Site("bls_ics", "ics", 225, TRUE, TRUE),
      Site("fed", "monetarypolicy.htm", 171, TRUE, TRUE),
      Site("news", "US stock market futures S&P 500", 476, FALSE, FALSE),
      Site("news", "Nasdaq earnings", 478, FALSE, FALSE)>>

CallSites ==
    IndexSites \o MacroSites \o EarningsSites \o TickerSites \o SectorSites
        \o TailSites

NSites == Len(CallSites)

\* Where the groups of call sites start.
SpxAt == 1
NdqAt == 2
DjiAt == 3
VixAt == 4
Us10yAt == 5
DxyAt == 6
WtiAt == 7
DayAt(d) == Len(IndexSites) + Len(MacroSites) + d + 1
PriceAt(t) == DayAt(LookupDays - 1) + 2 * t - 1
NewsOneAt(t) == PriceAt(t) + 1
SectorAt(k) == NewsOneAt(Len(MY_TICKERS)) + k
BlsPageAt == SectorAt(Len(SECTOR_ETFS)) + 1
BlsIcsAt == BlsPageAt + 1
FedAt == BlsIcsAt + 1
NewsAt == FedAt + 1
NewsExtraAt == NewsAt + 1

Failed(o) == o \in {"raised", "timeout"}

\* The CSV a price or rate call site answers with: two rows, dated 1 and 2,
\* when it has data, the header alone when it has none.
SampleResponse(i, o) ==
    LET fred == CallSites[i].fn = "fred"
        base == IF i = VixAt THEN 16 ELSE 200
        step == IF i = VixAt THEN 0 - 1 ELSE (i % 4) + 1
        line(d, v) == [parts |-> IF fred THEN 2 ELSE 5, dt |-> d, val |-> Num(v)]
    IN  [kind |-> IF fred THEN "fred" ELSE "stooq",
         status |-> IF Failed(o) THEN "error" ELSE "ok",
         lines |-> IF o = "data"
                   THEN <<[parts |-> 5, dt |-> 0, val |-> Junk],
                          line(1, base), line(2, base + step)>>
                   ELSE <<[parts |-> 5, dt |-> 0, val |-> Junk]>>]

\* What the series call at site i gave main(): the adapter's result, and
\* for the guarded calls (lines 387-390, 421-424) empty closes on a raise.
SeriesAt(out, i, limit) ==
    LET r == SampleResponse(i, out[i])
        got == IF r.kind = "fred" THEN fetch_fred_dgs10(r, limit)
               ELSE fetch_stooq_close_series(r, limit)
    IN  IF got.raised THEN [labels |-> <<>>, values |-> <<>>]
        ELSE [labels |-> got.labels, values |-> got.values]

\* The earnings lookup's answers: a day with data lists the ticker of its
\* own place in the watchlist, before the open.
CalendarOf(out) ==
    [d \in 0..(LookupDays - 1) |->
        CASE out[DayAt(d)] = "data" -> [shape |-> "list",
                   rows |-> <<[isdict |-> TRUE, symbol |-> MY_TICKERS[d + 1],
                               time |-> "BMO"]>>]
          [] Failed(out[DayAt(d)]) -> [shape |-> "raise", rows |-> <<>>]
          [] OTHER -> [shape |-> "list", rows |-> <<>>]]

\* One entry of mystocks, lines 385-416
holding_of(out, t, up) ==
    LET closes == SeriesAt(out, PriceAt(t), 3).values
        lp == last_prev(closes)
        headline == out[NewsOneAt(t)] = "data"
        dated == {j \in 1..Len(up) : up[j].symbol = MY_TICKERS[t]}
    IN  [symbol |-> MY_TICKERS[t],
         last |-> IF lp[1] # None THEN [text |-> "number", of |-> lp[1][1]]
                  ELSE [text |-> "-", of |-> 0],
         changePct |-> holding_chg(lp[1], lp[2]),
         news |-> IF headline THEN "headline" ELSE "none",
         nextEvent |-> IF dated = {} THEN <<"none">>
                       ELSE <<"on">> \o up[CHOOSE j \in dated : \A k \in dated : k <= j].when]

\* One entry of sectors, lines 420-427 and 542
sector_of(out, k) ==
    LET lp == last_prev(SeriesAt(out, SectorAt(k), 3).values)
    IN  [name |-> SECTOR_ETFS[k], changePct |-> holding_chg(lp[1], lp[2])]

\* fetch_bls_schedule: no events unless the page and the .ics both answer.
econ_events(out) ==
    IF out[BlsPageAt] = "data" /\ out[BlsIcsAt] = "data"
    THEN <<[time |-> "2026-01-29 08:30", title |-> "release", note |-> "BLS"]>>
    ELSE <<>>

\* fetch_fed_schedule
fed_events(out) ==
    IF out[FedAt] = "data"
    THEN <<[time |-> "-", title |-> "FOMC", note |-> "Fed"]>>
    ELSE <<>>

\* Lines 476-480: five headlines from the first query when it has them, and
\* the second query's otherwise.
news_top5(out) ==
    LET item(q, k) == [title |-> <<q, k>>, source |-> "Google News", star |-> FALSE]
        first == IF out[NewsAt] = "data" THEN [k \in 1..5 |-> item("market", k)]
                 ELSE <<>>
        extra == IF out[NewsExtraAt] = "data" THEN [k \in 1..5 |-> item("nasdaq", k)]
                 ELSE <<>>
        news == IF Len(first) < 5 THEN FirstN(first \o extra, 12) ELSE first
    IN  FirstN(news, 5)

\* max(mystocks, key=changePct), line 497: the first of the largest.
FirstMax(xs) ==
    xs[CHOOSE i \in 1..Len(xs) :
          /\ \A j \in 1..Len(xs) : xs[j].changePct <= xs[i].changePct
          /\ \A j \in 1..(i - 1) : xs[j].changePct < xs[i].changePct]

\* min(mystocks, key=changePct), line 498: the first of the smallest.
FirstMin(xs) ==
    xs[CHOOSE i \in 1..Len(xs) :
          /\ \A j \in 1..Len(xs) : xs[j].changePct >= xs[i].changePct
          /\ \A j \in 1..(i - 1) : xs[j].changePct > xs[i].changePct]

Abs(v) == IF v < 0 THEN 0 - v ELSE v

\* max(abs(changePct)), line 510
MaxAbs(xs) ==
    LET all == {Abs(xs[i].changePct) : i \in 1..Len(xs)}
    IN  IF all = {} THEN 0 ELSE CHOOSE m \in all : \A v \in all : v <= m

\* The document main() builds, lines 335-550, from what the calls gave.
payload_of(out) ==
    LET spx == SeriesAt(out, SpxAt, 35)
        ixic == SeriesAt(out, NdqAt, 35)
        dji == SeriesAt(out, DjiAt, 35)
        vix == SeriesAt(out, VixAt, 35)
        us10y == SeriesAt(out, Us10yAt, 35)
        dxy == SeriesAt(out, DxyAt, 35)
        wti == SeriesAt(out, WtiAt, 35)
        spx_lp == last_prev(spx.values)
        ixic_lp == last_prev(ixic.values)
        dji_lp == last_prev(dji.values)
        vix_lp == last_prev(vix.values)
        us10y_lp == last_prev(us10y.values)
        dxy_lp == last_prev(dxy.values)
        wti_lp == last_prev(wti.values)
        us10y_bp == IF us10y_lp[1] # None /\ us10y_lp[2] # None
                    THEN (us10y_lp[1][1] - us10y_lp[2][1]) * 100 ELSE 0
        up == build_earnings_next_7days(CalendarOf(out))
        mystocks == AsList([t \in 1..Len(MY_TICKERS) |-> holding_of(out, t, up)])
        ma == mood_action(spx_change(spx_lp[1], spx_lp[2]), vix_lp[1])
    IN  [updatedAt |-> "now",
         oneLine |-> [top |-> FirstMax(mystocks).symbol,
                      bot |-> FirstMin(mystocks).symbol],
         mood |-> [value |-> ma.mood],
         action |-> [value |-> ma.action],
         overnight |->
            [kpis |-> <<kpi(spx_lp[1], spx_lp[2]), kpi(ixic_lp[1], ixic_lp[2]),
                        kpi(dji_lp[1], dji_lp[2]), kpi(vix_lp[1], vix_lp[2])>>,
             series |-> overnight_series(spx, ixic, dji)],
         schedule |-> [econ |-> econ_events(out), fed |-> fed_events(out)],
         macro |->
            [kpis |-> <<[valueText |-> kpi(us10y_lp[1], us10y_lp[2]).valueText,
                         changePct |-> 0, bp |-> us10y_bp],
                        kpi(dxy_lp[1], dxy_lp[2]), kpi(wti_lp[1], wti_lp[2])>>,
             series |-> macro_series(us10y, dxy, wti, spx)],
         newsTop5 |-> news_top5(out),
         earnings |-> [upcoming |-> up,
                       movers |-> build_movers(up, mystocks, 0)],
         sectors |-> [k \in 1..Len(SECTOR_ETFS) |-> sector_of(out, k)],
         myStocks |-> mystocks,
         risk |-> [speed |-> MaxAbs(mystocks),
                   vol |-> IF vix_lp[1] # None THEN "VIX: number" ELSE "VIX: -",
                   rule |-> ma.action],
         todo3 |-> <<"check top and bottom 3", "read the news first", "trade once">>]

\* dumps leaving out newsTop5 when there is no news.
dumps_omitting_empty(doc) ==
    <<<<"updatedAt", doc.updatedAt>>, <<"oneLine", doc.oneLine>>,
      <<"mood", doc.mood>>, <<"action", doc.action>>,
      <<"overnight", doc.overnight>>, <<"schedule", doc.schedule>>,
      <<"macro", doc.macro>>>>
    \o (IF doc.newsTop5 = <<>> THEN <<>> ELSE <<<<"newsTop5", doc.newsTop5>>>>)
    \o <<<<"earnings", doc.earnings>>, <<"sectors", doc.sectors>>,
          <<"myStocks", doc.myStocks>>, <<"risk", doc.risk>>,
          <<"todo3", doc.todo3>>>>

\* json.dumps(payload): the top-level keys in the order the dict literal
\* lists them, each with its value.
dumps(doc) ==
    <<<<"updatedAt", doc.updatedAt>>, <<"oneLine", doc.oneLine>>,
      <<"mood", doc.mood>>, <<"action", doc.action>>,
      <<"overnight", doc.overnight>>, <<"schedule", doc.schedule>>,
      <<"macro", doc.macro>>, <<"newsTop5", doc.newsTop5>>,
      <<"earnings", doc.earnings>>, <<"sectors", doc.sectors>>,
      <<"myStocks", doc.myStocks>>, <<"risk", doc.risk>>,
      <<"todo3", doc.todo3>>>>

----------------------------------------------------------------------------
(* main() as a run: one external call at a time, then the document, then    *)
(* OUT.write_text(json.dumps(payload)).                                     *)

\* At most this many calls of one run do anything but return data.
MaxDegraded == 1

\* The document the previous run left in data/latest.json.
PrevArtifact ==
    dumps([payload_of([i \in 1..NSites |-> "data"]) EXCEPT !.updatedAt = "earlier"])

\* The call site main() reaches after site i: the .ics is fetched only when
\* the BLS page gave its link (lines 216-221), the second news query is made
\* only when the first gave fewer than 5 items (line 477).
RECURSIVE NextSite(_, _)
NextSite(i, out) ==
    LET j == i + 1
    IN  IF j > NSites THEN j
        ELSE IF j = BlsIcsAt /\ out[BlsPageAt] # "data" THEN NextSite(j, out)
        ELSE IF j = NewsExtraAt /\ out[NewsAt] = "data" THEN NextSite(j, out)
        ELSE j

Degraded(out) == Cardinality({i \in 1..NSites : out[i] \notin {"none", "data"}})

Init ==
    /\ phase = "idle"
    /\ site = 1
    /\ outcome = [i \in 1..NSites |-> "none"]
    /\ payload = None
    /\ file = PrevArtifact
    /\ IdleFetch /\ IdleAlign /\ IdleRule /\ IdleEarn /\ IdleRss

\* main() issues the call at hand.
Call ==
    /\ phase = "idle" /\ site <= NSites
    /\ phase' = "pending"
    /\ UNCHANGED <<site, outcome, payload, file, fetchVars, alignVars, ruleVars,
                   earnVars, rssVars>>

\* The call returned: main() goes on to the next call, or to the document.
Answered(o) ==
    /\ outcome' = [outcome EXCEPT ![site] = o]
    /\ site' = NextSite(site, outcome')
    /\ phase' = IF site' > NSites THEN "assemble" ELSE "idle"
    /\ UNCHANGED <<payload, file, fetchVars, alignVars, ruleVars, earnVars,
                   rssVars>>

\* The call raised: a guarded call is answered with nothing, an unguarded
\* one ends main() with the exception.
Thrown(o) ==
    IF CallSites[site].guarded THEN Answered(o)
    ELSE /\ outcome' = [outcome EXCEPT ![site] = o]
         /\ phase' = "aborted"
         /\ UNCHANGED <<site, payload, file, fetchVars, alignVars, ruleVars,
                        earnVars, rssVars>>

ReturnData == phase = "pending" /\ Answered("data")

ReturnEmpty ==
    /\ phase = "pending" /\ Degraded(outcome) < MaxDegraded
    /\ Answered("empty")

\* A network error, an HTTP error status or a parse exception.
Raise ==
    /\ phase = "pending" /\ Degraded(outcome) < MaxDegraded
    /\ Thrown("raised")

\* The timeout given to the call expired: requests raises.
Timeout ==
    /\ phase = "pending" /\ CallSites[site].timeout
    /\ Degraded(outcome) < MaxDegraded
    /\ Thrown("timeout")

\* Lines 482-550 and json.dumps at line 552.
Assemble ==
    /\ phase = "assemble"
    /\ payload' = Some(payload_of(outcome))
    /\ phase' = "serialized"
    /\ UNCHANGED <<site, outcome, file, fetchVars, alignVars, ruleVars, earnVars,
                   rssVars>>

\* write_text opens the file for writing, which empties it.
OpenOut ==
    /\ phase = "serialized"
    /\ file' = <<>>
    /\ phase' = "writing"
    /\ UNCHANGED <<site, outcome, payload, fetchVars, alignVars, ruleVars,
                   earnVars, rssVars>>

\* The open fails (the path is not writable).
OpenFail ==
    /\ phase = "serialized"
    /\ phase' = "write_failed"
    /\ UNCHANGED <<site, outcome, payload, file, fetchVars, alignVars, ruleVars,
                   earnVars, rssVars>>

\* The text is written and the file closed.
WriteOut ==
    /\ phase = "writing"
    /\ file' = dumps(payload[1])
    /\ phase' = "done"
    /\ UNCHANGED <<site, outcome, payload, fetchVars, alignVars, ruleVars,
                   earnVars, rssVars>>

\* The write fails part-way (the disk is full, an I/O error): the file
\* holds the part written so far.
WriteFail ==
    /\ phase = "writing"
    /\ \E n \in 0..(Len(dumps(payload[1])) - 1) :
          file' = FirstN(dumps(payload[1]), n)
    /\ phase' = "write_failed"
    /\ UNCHANGED <<site, outcome, payload, fetchVars, alignVars, ruleVars,
                   earnVars, rssVars>>

Next ==
    \/ Call \/ ReturnData \/ ReturnEmpty \/ Raise \/ Timeout
    \/ Assemble \/ OpenOut \/ OpenFail \/ WriteOut \/ WriteFail

Spec == Init /\ [][Next]_vars

FailedSites == {i \in 1..NSites : Failed(outcome[i])}

\* What site i contributes to the document is there: a KPI value, an
\* upcoming entry of that day, a last price, a headline, a sector change,
\* schedule events, news items.
SitePopulated(doc, i) ==
    CASE i \in {SpxAt, NdqAt, DjiAt, VixAt} ->
            doc.overnight.kpis[i].valueText.text = "number"
      [] i \in {Us10yAt, DxyAt, WtiAt} ->
            doc.macro.kpis[i - Len(IndexSites)].valueText.text = "number"
      [] i \in DayAt(0)..DayAt(LookupDays - 1) ->
            \E j \in 1..Len(doc.earnings.upcoming) :
                doc.earnings.upcoming[j].when[1] = i - DayAt(0)
      [] i \in PriceAt(1)..NewsOneAt(Len(MY_TICKERS)) ->
            LET k == i - PriceAt(1) + 1
            IN  IF k % 2 = 1 THEN doc.myStocks[(k + 1) \div 2].last.text = "number"
                ELSE doc.myStocks[k \div 2].news = "headline"
      [] i \in SectorAt(1)..SectorAt(Len(SECTOR_ETFS)) ->
            doc.sectors[i - SectorAt(1) + 1].changePct # 0
      [] i \in {BlsPageAt, BlsIcsAt} -> doc.schedule.econ # <<>>
      [] i = FedAt -> doc.schedule.fed # <<>>
      [] OTHER -> doc.newsTop5 # <<>>

\* C1: when one external call of a run fails and all the others succeed,
\* the failure does not end main(): the run goes on to the write, and the
\* document has nothing from the failed source and everything else.
C1_OneFailureIsContained ==
    (/\ Cardinality(FailedSites) = 1
     /\ \A i \in 1..NSites : outcome[i] \in {"none", "data", "raised", "timeout"})
    => /\ phase # "aborted"
       /\ payload # None =>
             \A i \in 1..NSites :
                 outcome[i] # "none" =>
                     (SitePopulated(payload[1], i) <=> outcome[i] = "data")

\* C2: data/latest.json holds the previous run's document when the run
\* failed, during construction or during the write, and the new document
\* when the run succeeded.
C2_WriteIsAllOrNothing ==
    /\ phase \in {"aborted", "write_failed"} => file = PrevArtifact
    /\ phase = "done" => file = dumps(payload[1])

\* C9: every external call carries a timeout, so that none can block
\* forever.
C9_EveryCallHasTimeout ==
    phase = "pending" => CallSites[site].timeout

----------------------------------------------------------------------------
(* The document on any combination of sources with data and without.       *)

\* The sources answer by group: the S&P 500; the other indices and the VIX;
\* the 10-year rate; DXY and WTI; the earnings lookups; the ticker and sector
\* prices; the ticker headlines; the Fed page.
\* news: the first query has data; or it has none and the second has data,
\* or none. bls: the page and the .ics have data; or the .ics has none; or
\* the page has no link and the .ics is not fetched.
DocOutcomes ==
    {[i \in 1..NSites |->
        CASE i = SpxAt -> g.spx
          [] i \in {NdqAt, DjiAt, VixAt} -> g.idx
          [] i = Us10yAt -> g.us10y
          [] i \in {DxyAt, WtiAt} -> g.fx
          [] i \in DayAt(0)..DayAt(LookupDays - 1) -> g.earn
          [] i \in PriceAt(1)..NewsOneAt(Len(MY_TICKERS)) ->
                IF (i - PriceAt(1)) % 2 = 0 THEN g.price ELSE g.headline
          [] i \in SectorAt(1)..SectorAt(Len(SECTOR_ETFS)) -> g.price
          [] i = BlsPageAt -> IF bls = "no link" THEN "empty" ELSE "data"
          [] i = BlsIcsAt -> CASE bls = "no link" -> "none"
                               [] bls = "no events" -> "empty"
                               [] OTHER -> "data"
          [] i = FedAt -> g.fed
          [] i = NewsAt -> IF news = "first" THEN "data" ELSE "empty"
          [] OTHER -> CASE news = "first" -> "none"
                        [] news = "second" -> "data"
                        [] OTHER -> "empty"] :
     g \in [{"spx", "idx", "us10y", "fx", "earn", "price", "headline", "fed"}
                -> {"data", "empty"}],
     bls \in {"events", "no events", "no link"},
     news \in {"first", "second", "neither"}}

InitDoc ==
    /\ phase = "assemble"
    /\ site = NSites + 1
    /\ outcome \in DocOutcomes
    /\ payload = None
    /\ file = PrevArtifact
    /\ IdleFetch /\ IdleAlign /\ IdleRule /\ IdleEarn /\ IdleRss

NextDoc == Assemble \/ OpenOut \/ WriteOut

SpecDoc == InitDoc /\ [][NextDoc]_vars

TopLevelKeys ==
    {"updatedAt", "oneLine", "mood", "action", "overnight", "macro", "schedule",
     "newsTop5", "earnings", "sectors", "myStocks", "risk", "todo3"}

\* The value the written file holds under a key.
Written(key) == file[CHOOSE i \in 1..Len(file) : file[i][1] = key][2]

NoData(i) == outcome[i] # "data"

\* C3: a written document has each of the thirteen top-level keys once,
\* with schedule.econ, schedule.fed, earnings.upcoming and earnings.movers,
\* whichever sources had data; a section without data is an empty array or
\* the "-" placeholder.
C3_AllKeysPresent ==
    phase = "done" =>
        /\ Len(file) = Cardinality(TopLevelKeys)
        /\ {file[i][1] : i \in 1..Len(file)} = TopLevelKeys
        /\ DOMAIN Written("schedule") = {"econ", "fed"}
        /\ DOMAIN Written("earnings") = {"upcoming", "movers"}
        /\ \A i \in {SpxAt, NdqAt, DjiAt, VixAt} :
              NoData(i) => Written("overnight").kpis[i].valueText.text = "-"
        /\ \A i \in {Us10yAt, DxyAt, WtiAt} :
              NoData(i) =>
                  Written("macro").kpis[i - Len(IndexSites)].valueText.text = "-"
        /\ NoData(SpxAt) => Written("overnight").series.labels = <<>>
        /\ (NoData(SpxAt) /\ NoData(Us10yAt)) =>
              Written("macro").series.labels = <<>>
        /\ (NoData(BlsPageAt) \/ NoData(BlsIcsAt)) => Written("schedule").econ = <<>>
        /\ NoData(FedAt) => Written("schedule").fed = <<>>
        /\ (NoData(NewsAt) /\ NoData(NewsExtraAt)) => Written("newsTop5") = <<>>
        /\ (\A d \in 0..(LookupDays - 1) : NoData(DayAt(d))) =>
              Written("earnings").upcoming = <<>>
        /\ \A t \in 1..Len(MY_TICKERS) :
              NoData(PriceAt(t)) => Written("myStocks")[t].last.text = "-"
        /\ Len(Written("myStocks")) = Len(MY_TICKERS)
        /\ Len(Written("sectors")) = Len(SECTOR_ETFS)
        /\ Len(Written("todo3")) = 3

\* A document was written in a run where no source had any data.
C3_Witness ==
    /\ phase = "done"
    /\ \A i \in 1..NSites : outcome[i] \in {"empty", "none"}
    /\ file = dumps(payload[1])
    /\ Written("newsTop5") = <<>>

----------------------------------------------------------------------------
(* The series adapters on any response.                                     *)

Header == [parts |-> 5, dt |-> 0, val |-> Junk]

\* A data row: 2 or 5 comma-separated parts, a date, a value field that
\* parses or not. The value of a row is told by its date, so that a value
\* found at another date shows.
DataLines ==
    {[parts |-> p, dt |-> d, val |-> IF parses THEN Num(100 + d) ELSE Junk] :
        p \in {2, 5}, d \in 1..MaxDate, parses \in BOOLEAN}

\* Rows in any order, one row per date.
RowSeqs ==
    LET all == UNION {[1..k -> DataLines] : k \in 0..MaxRows}
    IN  {r \in all : \A i, j \in 1..Len(r) : i # j => r[i].dt # r[j].dt}

Responses ==
    {[kind |-> k, status |-> st, lines |-> <<Header>> \o r, limit |-> n] :
        k \in {"stooq", "fred"}, st \in {"ok", "error"}, r \in RowSeqs,
        n \in 1..MaxLimit}

InitFetch ==
    /\ resp \in Responses
    /\ series = None
    /\ IdlePipe /\ IdleAlign /\ IdleRule /\ IdleEarn /\ IdleRss

FetchStooq ==
    /\ resp # None /\ resp.kind = "stooq" /\ series = None
    /\ series' = fetch_stooq_close_series(resp, resp.limit)
    /\ UNCHANGED <<resp, pipeVars, alignVars, ruleVars, earnVars, rssVars>>

FetchFred ==
    /\ resp # None /\ resp.kind = "fred" /\ series = None
    /\ series' = fetch_fred_dgs10(resp, resp.limit)
    /\ UNCHANGED <<resp, pipeVars, alignVars, ruleVars, earnVars, rssVars>>

NextFetch == FetchStooq \/ FetchFred

SpecFetch == InitFetch /\ [][NextFetch]_vars

\* The observations of a response: the rows whose value parses (and, for
\* the price CSV, that have the close column).
ValidRows(r) ==
    {<<r.lines[i].dt, r.lines[i].val.num>> :
        i \in {j \in 2..Len(r.lines) :
                  /\ r.lines[j].val.kind = "num"
                  /\ (r.kind = "stooq" => r.lines[j].parts >= 5)}}

\* The n latest-dated of a set of observations.
MostRecent(obs, n) ==
    {o \in obs : Cardinality({q \in obs : q[1] > o[1]}) < n}

SeriesRows(s) == {<<s.labels[i], s.values[i]>> : i \in 1..Len(s.labels)}

\* C7: whatever the order of the provider's rows, a series adapter returns
\* the limit most recent valid observations, sorted by date strictly
\* ascending.
C7_SortedMostRecent ==
    (series # None /\ ~series.raised) =>
        /\ \A i \in 1..(Len(series.labels) - 1) :
              series.labels[i] < series.labels[i + 1]
        /\ SeriesRows(series) = MostRecent(ValidRows(resp), resp.limit)

----------------------------------------------------------------------------
(* The two charts on any six series.                                        *)

EmptySeries == [labels |-> <<>>, values |-> <<>>]

\* The dates of a set, ascending (descending when desc).
Ordered(dates, desc) ==
    LET n == Cardinality(dates)
        rank(d) == Cardinality({e \in dates : IF desc THEN e > d ELSE e < d}) + 1
    IN  [i \in 1..n |-> CHOOSE d \in dates : rank(d) = i]

\* Series number k on the given dates: the value at date d is 100 * k + d,
\* so that a value tells its series and its date.
SeriesOn(k, dates, desc) ==
    LET labels == Ordered(dates, desc)
    IN  [labels |-> labels,
         values |-> [i \in 1..Len(labels) |-> 100 * k + labels[i]]]

DateSets == SUBSET (1..MaxDate)

MacroFeeds(desc) ==
    {[chart |-> "macro",
      us10y |-> SeriesOn(1, a, desc), dxy |-> SeriesOn(2, b, desc),
      wti |-> SeriesOn(3, c, desc), spx |-> SeriesOn(4, e, desc),
      ixic |-> EmptySeries, dji |-> EmptySeries] :
        a \in DateSets, b \in DateSets, c \in DateSets, e \in DateSets}

OvernightFeeds(desc) ==
    {[chart |-> "overnight",
      us10y |-> EmptySeries, dxy |-> EmptySeries, wti |-> EmptySeries,
      spx |-> SeriesOn(4, e, desc), ixic |-> SeriesOn(5, a, desc),
      dji |-> SeriesOn(6, b, desc)] :
        a \in DateSets, b \in DateSets, e \in DateSets}

InitAlign ==
    /\ \E desc \in BOOLEAN :
          \/ feeds \in MacroFeeds(desc)
          \/ feeds \in OvernightFeeds(desc)
    /\ charts = None
    /\ IdlePipe /\ IdleFetch /\ IdleRule /\ IdleEarn /\ IdleRss

AlignMacro ==
    /\ feeds # None /\ feeds.chart = "macro" /\ charts = None
    /\ charts' = [of |-> "macro",
                   series |-> macro_series(feeds.us10y, feeds.dxy, feeds.wti,
                                           feeds.spx)]
    /\ UNCHANGED <<feeds, pipeVars, fetchVars, ruleVars, earnVars, rssVars>>

AlignOvernight ==
    /\ feeds # None /\ feeds.chart = "overnight" /\ charts = None
    /\ charts' = [of |-> "overnight",
                   series |-> overnight_series(feeds.spx, feeds.ixic, feeds.dji)]
    /\ UNCHANGED <<feeds, pipeVars, fetchVars, ruleVars, earnVars, rssVars>>

NextAlign == AlignMacro \/ AlignOvernight

SpecAlign == InitAlign /\ [][NextAlign]_vars

\* arr is series s laid on the axis: one entry per label, the value s has at
\* that label's date, None where s has no row of that date.
LaidOn(arr, labels, s) ==
    /\ Len(arr) = Len(labels)
    /\ \A i \in 1..Len(labels) :
          LET rows == {j \in 1..Len(s.labels) : s.labels[j] = labels[i]}
          IN  /\ rows = {} => arr[i] = None
              /\ rows # {} => \E j \in rows : arr[i] = Some(s.values[j])

\* C6: in both charts every value array is as long as the labels axis and
\* holds, at each position, the series' own value at that label's date, or
\* None when the series has no such date.
C6_ChartsAlignedByDate ==
    charts # None =>
        LET c == charts.series
        IN  IF charts.of = "macro"
            THEN /\ LaidOn(c.us10y, c.labels, feeds.us10y)
                 /\ LaidOn(c.dxy, c.labels, feeds.dxy)
                 /\ LaidOn(c.wti, c.labels, feeds.wti)
            ELSE /\ LaidOn([i \in 1..Len(c.spx) |-> Some(c.spx[i])], c.labels,
                           feeds.spx)
                 /\ LaidOn(c.ixic, c.labels, feeds.ixic)
                 /\ LaidOn(c.dji, c.labels, feeds.dji)

\* The macro chart fell back to the S&P 500 axis, trimmed to the window, and
\* one series has a value at one label and none at another.
C6_Witness ==
    /\ charts # None /\ charts.of = "macro"
    /\ feeds.us10y.labels = <<>>
    /\ Len(feeds.spx.labels) > ChartLen
    /\ Len(charts.series.labels) = ChartLen
    /\ \E i, j \in 1..Len(charts.series.labels) :
          charts.series.dxy[i] = None /\ charts.series.dxy[j] # None

----------------------------------------------------------------------------
(* The metric helpers and the rule on any two close arrays.                 *)

SpxLevels == {0, 198, 199, 200, 201, 202}
VixLevels == {0, 17, 18, 19, 20, 21}

CloseArrays(levels) == UNION {[1..k -> levels] : k \in 0..MaxCloses}

InitRule ==
    /\ quotes \in [spx : CloseArrays(SpxLevels), vix : CloseArrays(VixLevels)]
    /\ verdict = None
    /\ IdlePipe /\ IdleFetch /\ IdleAlign /\ IdleEarn /\ IdleRss

\* Lines 335-344 and 482-494 for the S&P 500 and the VIX, and lines 391-392
\* for the same closes read as a holding's.
Derive ==
    /\ quotes # None /\ verdict = None
    /\ LET spx_lp == last_prev(quotes.spx)
           vix_lp == last_prev(quotes.vix)
           spx_chg == spx_change(spx_lp[1], spx_lp[2])
           vix_val == vix_lp[1]
           ma == mood_action(spx_chg, vix_val)
       IN  verdict' = [last |-> spx_lp[1], prev |-> spx_lp[2],
                       pct |-> Some(pct_change(spx_lp[1], spx_lp[2])),
                       kpi |-> kpi(spx_lp[1], spx_lp[2]),
                       chg |-> holding_chg(spx_lp[1], spx_lp[2]),
                       spx_chg |-> spx_chg, vix_val |-> vix_val,
                       mood |-> ma.mood, action |-> ma.action]
    /\ UNCHANGED <<quotes, pipeVars, fetchVars, alignVars, earnVars, rssVars>>

NextRule == Derive

SpecRule == InitRule /\ [][NextRule]_vars

\* C4: the verdict is decided by the index change x and the volatility v
\* alone: x > 0.5 and (v absent or v < 18) gives good / buy a little;
\* x < -0.5 and v present and v > 20 gives bad / wait; anything else gives
\* unclear / wait. The change is read off the two latest closes and the
\* volatility is the latest VIX close.
C4_ThreeBranchRule ==
    verdict # None =>
        LET n == Len(quotes.spx)
            has == n >= 2 /\ quotes.spx[n - 1] # 0
            \* 200 * (last - prev) compared with prev: change against 0.5
            up == has /\ (IF quotes.spx[n - 1] > 0
                          THEN 200 * (quotes.spx[n] - quotes.spx[n - 1])
                                 > quotes.spx[n - 1]
                          ELSE 200 * (quotes.spx[n] - quotes.spx[n - 1])
                                 < quotes.spx[n - 1])
            down == has /\ (IF quotes.spx[n - 1] > 0
                            THEN 200 * (quotes.spx[n] - quotes.spx[n - 1])
                                   < 0 - quotes.spx[n - 1]
                            ELSE 200 * (quotes.spx[n] - quotes.spx[n - 1])
                                   > 0 - quotes.spx[n - 1])
            m == Len(quotes.vix)
            calm == m < 2 \/ quotes.vix[m] < 18
            tense == m >= 2 /\ quotes.vix[m] > 20
        IN  /\ (up /\ calm) =>
                  verdict.mood = "good" /\ verdict.action = "buy a little"
            /\ (~(up /\ calm) /\ down /\ tense) =>
                  verdict.mood = "bad" /\ verdict.action = "wait"
            /\ (~(up /\ calm) /\ ~(down /\ tense)) =>
                  verdict.mood = "unclear" /\ verdict.action = "wait"

\* The change is exactly +0.5% with a calm VIX, and the verdict is unclear.
C4_Witness ==
    /\ verdict # None
    /\ quotes.spx = <<200, 201>> /\ quotes.vix = <<17, 17>>
    /\ verdict.mood = "unclear"

\* C5: pct_change is (last / prev - 1) * 100 when both inputs are present
\* and prev is not 0, and is absent (no number) when last or prev is
\* missing, so a series of fewer than two points reports no changePct of 0.
C5_AbsentWhenMissing ==
    verdict # None =>
        /\ (verdict.last # None /\ verdict.prev # None /\ verdict.prev # Some(0)) =>
              /\ verdict.pct # None
              /\ verdict.pct[1].n * verdict.prev[1]
                    = (verdict.last[1] - verdict.prev[1]) * 100 * verdict.pct[1].d
        /\ (verdict.last = None \/ verdict.prev = None) => verdict.pct = None
        /\ Len(quotes.spx) < 2 =>
              verdict.kpi.changePct # 0 /\ verdict.chg # 0

----------------------------------------------------------------------------
(* The earnings list and the movers on any calendar.                        *)

Row(sym, time) == [isdict |-> TRUE, symbol |-> sym, time |-> time]
ListOf(rows) == [shape |-> "list", rows |-> rows]
NoRows == ListOf(<<>>)

\* Small calendars: up to most rows on days 0 and 1, any symbols and
\* timing labels, the other days empty.
SmallItems ==
    {[day |-> d, row |-> Row(sym, t)] :
        d \in {0, 1}, sym \in {"NE", " ne ", "ZZZ"}, t \in {"", "BMO", "AMC"}}

SmallCalendars(most) ==
    LET rows == {it.row : it \in SmallItems}
        split == {x \in (0..most) \X (0..most) : x[1] + x[2] <= most}
        pairs == UNION {[1..x[1] -> rows] \X [1..x[2] -> rows] : x \in split}
    IN  {[d \in 0..(LookupDays - 1) |->
            IF d = 0 THEN ListOf(AsList(p[1]))
            ELSE IF d = 1 THEN ListOf(AsList(p[2]))
            ELSE NoRows] : p \in pairs}

\* Calendars whose first day's answer is not a list of rows with symbols.
ShapedCalendars ==
    {[d \in 0..(LookupDays - 1) |->
        IF d = 0 THEN a
        ELSE IF d = 1 THEN ListOf(<<Row("NE", "AMC")>>)
        ELSE NoRows] :
     a \in {[shape |-> "raise", rows |-> <<>>],
            [shape |-> "none", rows |-> <<>>],
            [shape |-> "str", rows |-> <<>>],
            [shape |-> "other", rows |-> <<>>],
            [shape |-> "dict", rows |-> <<Row("NE", "BMO")>>],
            ListOf(<<[isdict |-> FALSE, symbol |-> "NE", time |-> "BMO"],
                     Row("", "BMO"), Row("nvda", "AMC"), Row("ZZZ", "")>>)}}

\* Watchlist-wide calendars: the tickers of a set S report today (odd
\* places in MY_TICKERS) or tomorrow (even places); in the "far" variant the
\* other tickers report on day 3, and in the "twice" variant the tickers of
\* S are also listed on day 2, with a second timing label for the same day.
TickersAt(S, parity) ==
    LET at == SelectSeq([i \in 1..Len(MY_TICKERS) |-> i],
                        LAMBDA i : MY_TICKERS[i] \in S /\ i % 2 = parity)
    IN  [k \in 1..Len(at) |-> Row(MY_TICKERS[at[k]], "BMO")]

AllOf(S, time) ==
    LET at == SelectSeq(MY_TICKERS, LAMBDA t : t \in S)
    IN  [k \in 1..Len(at) |-> Row(at[k], time)]

WideCalendars ==
    {[d \in 0..(LookupDays - 1) |->
        CASE d = 0 -> ListOf(TickersAt(S, 1))
          [] d = 1 -> ListOf(TickersAt(S, 0))
          [] d = 2 /\ v = "twice" -> ListOf(AllOf(S, "BMO") \o AllOf(S, "AMC"))
          [] d = 3 /\ v # "near" -> ListOf(AllOf(myset \ S, "AMC"))
          [] OTHER -> NoRows] :
     S \in SUBSET myset, v \in {"near", "far", "twice"}}

\* changePct of the twelve holdings, in hundredths of a percent: stride 0
\* is twelve equal values, the others are runs with ties.
HoldingChanges ==
    {[i \in 1..Len(MY_TICKERS) |-> ((i * k) % 7) * 50 - 150] : k \in 0..MaxStride}

InitEarn ==
    /\ \/ calendar \in SmallCalendars(MaxCalRows)
       \/ calendar \in ShapedCalendars
       \/ calendar \in WideCalendars
    /\ clock = 0 /\ holdings = None /\ upcoming = None /\ movers = None
    /\ IdlePipe /\ IdleFetch /\ IdleAlign /\ IdleRule /\ IdleRss

InitMovers ==
    /\ calendar \in WideCalendars
    /\ clock \in {0, 1}
    /\ holdings \in HoldingChanges
    /\ upcoming = None /\ movers = None
    /\ IdlePipe /\ IdleFetch /\ IdleAlign /\ IdleRule /\ IdleRss

\* upcoming = build_earnings_next_7days(myset), line 379
BuildEarnings ==
    /\ calendar # None /\ upcoming = None
    /\ upcoming' = Some(build_earnings_next_7days(calendar))
    /\ UNCHANGED <<calendar, clock, holdings, movers, pipeVars, fetchVars,
                   alignVars, ruleVars, rssVars>>

\* Lines 429-469
BuildMovers ==
    /\ upcoming # None /\ holdings # None /\ movers = None
    /\ movers' = Some(build_movers(upcoming[1], mystocks_of(holdings), clock))
    /\ UNCHANGED <<calendar, clock, holdings, upcoming, pipeVars, fetchVars,
                   alignVars, ruleVars, rssVars>>

NextEarn == BuildEarnings

SpecEarn == InitEarn /\ [][NextEarn]_vars

NextMovers == BuildEarnings \/ BuildMovers

SpecMovers == InitMovers /\ [][NextMovers]_vars

\* The rows of day d that name watchlist symbol s, in the calendar's order.
RowsNaming(d, s) ==
    SelectSeq(RowsOf(calendar[d]),
              LAMBDA r : r.isdict /\ UpperStrip(r.symbol) = s)

\* C8: the upcoming list has at most one entry per (symbol, date), which is
\* the first row of that symbol the calendar lists on that date; every
\* symbol is in the watchlist; there are at most 12 entries.
C8_OneEntryPerSymbolAndDate ==
    upcoming # None =>
        LET up == upcoming[1]
        IN  /\ \A i, j \in 1..Len(up) :
                  (up[i].symbol = up[j].symbol /\ up[i].when[1] = up[j].when[1])
                      => i = j
            /\ \A i \in 1..Len(up) :
                  /\ up[i].symbol \in Range(MY_TICKERS)
                  /\ LET named == RowsNaming(up[i].when[1], up[i].symbol)
                     IN  /\ named # <<>>
                         /\ up[i].when = IF named[1].time = ""
                                          THEN <<up[i].when[1]>>
                                          ELSE <<up[i].when[1], named[1].time>>
            /\ Len(up) <= 12

\* A calendar listed a watchlist symbol twice on one day, as BMO and then
\* as AMC, and the list holds the BMO entry alone.
C8_Witness ==
    /\ upcoming # None
    /\ Len(RowsOf(calendar[0])) >= 2
    /\ RowsOf(calendar[0])[1] = Row("NE", "BMO")
    /\ RowsOf(calendar[0])[2] = Row(" ne ", "AMC")
    /\ upcoming[1] = <<[when |-> <<0, "BMO">>, symbol |-> "NE"]>>

\* The symbols with an upcoming entry dated within one day of today.
NearNow ==
    {upcoming[1][i].symbol : i \in {j \in 1..Len(upcoming[1]) :
        upcoming[1][j].when[1] \in {clock - 1, clock, clock + 1}}}

\* C10: the movers hold no symbol twice and at most 10 entries; the
\* near-earnings entries come before the proxy entries, which are there only
\* when fewer than 6 holdings are near earnings; a symbol that is near
\* earnings is listed as such.
C10_MoversDedupNearFirst ==
    movers # None =>
        LET ms == movers[1]
        IN  /\ \A i, j \in 1..Len(ms) : ms[i].symbol = ms[j].symbol => i = j
            /\ Len(ms) <= 10
            /\ \A i, j \in 1..Len(ms) :
                  (ms[i].why = "near" /\ ms[j].why = "proxy") => i < j
            /\ \A i \in 1..Len(ms) :
                  ms[i].why = "near" <=> ms[i].symbol \in NearNow
            /\ (\E i \in 1..Len(ms) : ms[i].why = "proxy")
                  => Cardinality(NearNow) < 6

\* A holding near its earnings is also among the top three by change, and
\* is listed once, as near earnings, ahead of the proxy entries.
C10_Witness ==
    /\ movers # None
    /\ Cardinality(NearNow) \in 1..5
    /\ \E i \in 1..Len(movers[1]) :
          /\ movers[1][i].why = "near"
          /\ movers[1][i].symbol
                \in {x.symbol : x \in Range(FirstN(sorted_desc(mystocks_of(holdings)), 3))}
    /\ \E i \in 1..Len(movers[1]) : movers[1][i].why = "proxy"

----------------------------------------------------------------------------
(* google_news_rss and its per-run cache, lines 116-160. A query and a     *)
(* title are texts, kept as sequences of tokens; " " is the blank.         *)

\* The most max_items a caller of google_news_rss passes.
MaxItems == 2
\* The most entries in one parsed feed.
MaxEntries == 2
\* google_news_one asks for max_items=5, line 157
NewsOneItems == 5

RECURSIVE lstrip(_)
lstrip(t) == IF t # <<>> /\ Head(t) = " " THEN lstrip(Tail(t)) ELSE t

RECURSIVE rstrip(_)
rstrip(t) ==
    IF t # <<>> /\ t[Len(t)] = " " THEN rstrip(SubSeq(t, 1, Len(t) - 1)) ELSE t

\* str.strip()
strip(t) == rstrip(lstrip(t))

\* str.lower()
lower(t) == AsList([i \in 1..Len(t) |-> IF t[i] = "A" THEN "a" ELSE t[i]])

\* query.replace(" ", "+") inside the feed url, lines 119-120
rss_url(query) ==
    AsList([i \in 1..Len(query) |-> IF query[i] = " " THEN "+" ELSE query[i]])

\* d[k] = v on a dict
Put(d, k, v) == [x \in DOMAIN d \cup {k} |-> IF x = k THEN v ELSE d[x]]

\* Lines 128-139: one item per entry of feed.entries[:max_items], its title
\* stripped.
feed_items(entries, max_items) ==
    LET head == FirstN(entries, max_items)
    IN  AsList([i \in 1..Len(head) |-> [title |-> strip(head[i].title)]])

title_key_exact(it) == it.title

\* key = it["title"].lower(), line 145
title_key(it) == lower(it.title)

\* Lines 142-149: items with an empty key or a key seen before are dropped.
RECURSIVE dedup_by_title(_, _)
dedup_by_title(items, seen) ==
    IF items = <<>> THEN <<>>
    ELSE LET key == title_key(Head(items))
         IN  IF key = <<>> \/ key \in seen
             THEN dedup_by_title(Tail(items), seen)
             ELSE <<Head(items)>>
                    \o dedup_by_title(Tail(items), seen \cup {key})

\* google_news_rss(query, max_items) with the cache as it stands; answer is
\* what feedparser.parse does if it is called: it raises, or it gives a feed.
\* The result tells whether parse was called, whether the call raised, the
\* list returned and the cache afterwards.
google_news_rss(cache, query, max_items, answer) ==
    LET url == rss_url(query)
    IN  IF url \in DOMAIN cache
        THEN [fetched |-> FALSE, raised |-> FALSE, out |-> cache[url],
              cache |-> cache]
        ELSE IF answer.raised
        THEN [fetched |-> TRUE, raised |-> TRUE, out |-> <<>>, cache |-> cache]
        ELSE LET items == feed_items(answer.entries, max_items)
                 out == FirstN(dedup_by_title(items, {}), max_items)
             IN  [fetched |-> TRUE, raised |-> FALSE, out |-> out,
                  cache |-> Put(cache, url, out)]

\* google_news_one's return value for the google_news_rss result r,
\* lines 156-160
google_news_one(r) ==
    IF r.raised THEN None
    ELSE IF r.out # <<>> THEN Some(r.out[1]) ELSE None

\* The queries main() passes: the second market query (line 478) and a
\* ticker query (line 401).
Queries == {<<"Nasdaq", " ", "earnings">>, <<"NVDA", " ", "stock">>}

\* Entry titles as the feed carries them: blank, "a", "A " and "b".
RawTitles == {<<" ">>, <<"a">>, <<"A", " ">>, <<"b">>}

Feeds ==
    UNION {[1..n -> [title : RawTitles]] : n \in 0..MaxEntries}

Answers ==
    {[raised |-> TRUE, entries |-> <<>>]}
        \cup {[raised |-> FALSE, entries |-> AsList(f)] : f \in Feeds}

\* What feedparser.parse may do in a call for query: nothing on a cache hit
\* (line 123 returns before it is called), any answer otherwise.
AnswersFor(query) ==
    IF rss_url(query) \in DOMAIN RSS_CACHE
    THEN {[raised |-> FALSE, entries |-> <<>>]}
    ELSE Answers

InitRss ==
    /\ RSS_CACHE = <<>> /\ rss_call = None /\ rss_seen = <<>>
    /\ IdlePipe /\ IdleFetch /\ IdleAlign /\ IdleRule /\ IdleEarn

\* One call of google_news_rss, direct (fn = "rss") or through
\* google_news_one (fn = "one").
Called(fn, query, max_items, answer) ==
    LET r == google_news_rss(RSS_CACHE, query, max_items, answer)
        call == [fn |-> fn, query |-> query, max_items |-> max_items,
                 fetched |-> r.fetched, raised |-> r.raised, out |-> r.out,
                 one |-> IF fn = "one" THEN google_news_one(r) ELSE None]
    IN  /\ RSS_CACHE' = r.cache
        /\ rss_call' = Some(call)
        /\ rss_seen' = IF r.raised \/ query \in DOMAIN rss_seen THEN rss_seen
                       ELSE Put(rss_seen, query, call)
        /\ UNCHANGED <<pipeVars, fetchVars, alignVars, ruleVars, earnVars>>

CallRss ==
    \E query \in Queries, max_items \in 1..MaxItems :
        \E answer \in AnswersFor(query) :
            Called("rss", query, max_items, answer)

CallOne ==
    \E query \in Queries :
        \E answer \in AnswersFor(query) :
            Called("one", query, NewsOneItems, answer)

NextRss == CallRss \/ CallOne

SpecRss == InitRss /\ [][NextRss]_vars

\* The list has no item with an empty title and no two items whose titles
\* are the same when lowercased.
CleanTitles(out) ==
    /\ \A i \in 1..Len(out) : out[i].title # <<>>
    /\ \A i, j \in 1..Len(out) :
          lower(out[i].title) = lower(out[j].title) => i = j

\* C11: once a google_news_rss call for a query has returned, every later
\* call with that query fetches nothing and returns the list the first call
\* stored, whatever max_items it passes; a call that raises leaves the cache
\* as it was, and the next call with that query fetches again; every list
\* returned has no two items with the same case-insensitive title and no
\* item with an empty title.
C11_CachedPerQuery ==
    [][rss_call' # rss_call =>
          LET c == rss_call'[1]
              q == c.query
          IN  /\ q \in DOMAIN rss_seen =>
                    /\ ~c.fetched /\ ~c.raised
                    /\ c.out = rss_seen[q].out
              /\ c.raised => RSS_CACHE' = RSS_CACHE
              /\ (rss_call # None /\ rss_call[1].raised
                     /\ rss_call[1].query = q) => c.fetched
              /\ q \notin DOMAIN rss_seen => c.fetched
              /\ ~c.raised => CleanTitles(c.out)
              /\ c.fn = "one" =>
                    c.one = IF c.out = <<>> THEN None ELSE Some(c.out[1])]_vars

\* A call that asks for more items than the first call of its query kept
\* is answered from the cache with the first call's shorter list.
C11_Witness ==
    /\ rss_call # None
    /\ ~rss_call[1].fetched
    /\ rss_call[1].query \in DOMAIN rss_seen
    /\ rss_call[1].max_items > rss_seen[rss_call[1].query].max_items
    /\ Len(rss_call[1].out) = rss_seen[rss_call[1].query].max_items
    /\ rss_call[1].out = rss_seen[rss_call[1].query].out

====
